---- MODULE Spec2Model ----
(***************************************************************************)
(* Score ledger and player lifecycle of the game score counter.            *)
(*                                                                         *)
(* The state is the React state of pages/Index.tsx (gamePhase, gameState)  *)
(* together with the part of the GameScreen component state that decides   *)
(* what reaches the ledger (the pending starting score of the "add         *)
(* player" dialog).  One action models one user gesture: the GameScreen    *)
(* handler and the Index handler(s) it calls, run to completion.           *)
(*                                                                         *)
(* JavaScript numbers are modelled as exact rationals [num, den]; the      *)
(* rounding of IEEE-754 doubles is outside this model.                     *)
(*                                                                         *)
(* For a signed-in user the handlers also start the operations of the      *)
(* useGamePersistence hook; the part of an operation after its await runs  *)
(* later, as a step of its own that succeeds or fails, in any order with   *)
(* the other operations in flight and with the user's gestures.            *)
(***************************************************************************)
EXTENDS Integers, Sequences, FiniteSets, TLC

VARIABLES
    gamePhase,       \* Index: 'setup' | 'playing' | 'results'
    players,         \* gameState.players
    currentRound,    \* gameState.currentRound
    isDualScoring,   \* gameState.isDualScoring
    newPlayerScore,  \* GameScreen: the starting score field of the add-player dialog
    highestRound,    \* history: the highest currentRound of this game so far
    toggles,         \* history: give-ups and rejoins of this game so far
    backs,           \* history: "previous round" steps of this game so far
    firstSegment,    \* history: per player, the round its first segment began at
    lastOp,          \* history: the gesture or completion that led to this state
    user,            \* useAuth: whether a user is signed in
    persistenceState,\* useGamePersistence: gameId, isSyncing, lastSyncedRound, syncError
    inFlight,        \* the operations awaiting the answer of the backend
    database,        \* the backend: games, game_participants, round_scores
    resultsScreen    \* ResultsScreen: analysis, isLoading, showAnalysis

vars == <<gamePhase, players, currentRound, isDualScoring, newPlayerScore,
          highestRound, toggles, backs, firstSegment, lastOp,
          user, persistenceState, inFlight, database, resultsScreen>>

(***************************************************************************)
(* Bounds of the model.                                                    *)
(***************************************************************************)
\* currentRound never exceeds MaxRound (Save & Next is not taken at MaxRound).
MaxRound == 3
\* The setup screen starts a game with at most MaxStartPlayers players.
MaxStartPlayers == 2
\* A game holds at most MaxPlayers players (setup plus mid-game joins).
MaxPlayers == 3
\* At most MaxToggles give-ups and rejoins per game.
MaxToggles == 2
\* At most MaxBacks "previous round" steps per game.
MaxBacks == 1
\* A game with dual scoring holds at most MaxDualPlayers players.
MaxDualPlayers == 2
\* The longer game of SpecLong: its round bound.
LongRound == 4
\* The crowded game of SpecCrowd: its most players and its round bound.
MaxCrowd == 11
CrowdRound == 2
\* The saved game of SpecSync: its round bound, the most operations awaiting
\* the backend at a time, and the most games a behaviour creates in the backend.
SyncRound == 3
MaxInFlight == 2
MaxGames == 1
\* Non-empty values a user types into a score field (an empty field counts as 0).
ScoreInputs == {3}
\* Non-empty values a user types into a prediction field in dual scoring mode.
PredictionInputs == {1}
\* Non-empty values a user types into the starting score field.
StartingScoreInputs == {1}
\* The round a scenario game ends at (two submitted rounds).
ScenarioRound == 3
\* The scores typed in a scenario game.
ScenarioScoreInputs == {10, 20, 15, -5}

\* What the name fields of a long game can hold: nothing, or a typed name.
LongNameInputs == {"", "Player 1"}

\* The placeholder names of the players by position: the name of a player whose
\* name field was left empty.
PlayerNames == <<"Player 1", "Player 2", "Player 3", "Player 4", "Player 5",
                 "Player 6", "Player 7", "Player 8", "Player 9", "Player 10",
                 "Player 11", "Player 12">>

(***************************************************************************)
(* Numbers.                                                                *)
(***************************************************************************)
Abs(x) == IF x < 0 THEN -x ELSE x

RECURSIVE GCD(_, _)
GCD(a, b) == IF b = 0 THEN a ELSE GCD(b, a % b)

\* The rational n/d (d > 0) in lowest terms.
Norm(n, d) == LET g == GCD(Abs(n), d) IN [num |-> n \div g, den |-> d \div g]

\* The number literal n.
Num(n) == [num |-> n, den |-> 1]

\* a + b
Plus(a, b) == Norm(a.num * b.den + b.num * a.den, a.den * b.den)

\* a / k for a positive integer k
DivBy(a, k) == Norm(a.num, a.den * k)

\* a * k for a non-negative integer k
Times(a, k) == Norm(a.num * k, a.den)

\* a < b
Less(a, b) == a.num * b.den < b.num * a.den

\* The value undefined where a number is expected (RoundScore.prediction,
\* an empty input field).  It is no rational: its denominator is 0.
undefined == [num |-> 0, den |-> 0]

\* The value null (determineWinner of an empty list, gameId and syncError of
\* a game that is not saved, the prediction of a round record).
null == [kind |-> "null"]

\* gaveUpAtRound of a player who never gave up (the optional field is absent;
\* the code tests it by truthiness, and a round number is never 0).
NoRound == 0

\* scores.reduce((sum, score) => sum + score, 0)
RECURSIVE calculateCumulativeScore(_)
calculateCumulativeScore(scores) ==
    IF scores = <<>> THEN Num(0)
    ELSE Plus(calculateCumulativeScore(SubSeq(scores, 1, Len(scores) - 1)),
              scores[Len(scores)])

\* Array(n).fill(v)
Fill(n, v) == [i \in 1..n |-> v]

\* player.predictions of a game without dual scoring (undefined), and of one with
NoPredictions == [defined |-> FALSE, items |-> <<>>]
Predictions(items) == [defined |-> TRUE, items |-> items]

(***************************************************************************)
(* Index.tsx: the handlers as functions of the previous state.             *)
(***************************************************************************)
\* The players handleStartGame creates from the names of the setup screen.
StartPlayers(playerNames, dual) ==
    [i \in 1..Len(playerNames) |->
        [id |-> i - 1,
         name |-> playerNames[i],
         totalScore |-> Num(0),
         scores |-> <<>>,
         predictions |-> IF dual THEN Predictions(<<>>) ELSE NoPredictions,
         joinedAtRound |-> 1,
         isActive |-> TRUE,
         gaveUpAtRound |-> NoRound]]

\* scores.find(s => s.playerId === player.id): the index of the first entry of
\* the player, 0 when there is none.
FindScore(scores, id) ==
    LET hits == {k \in 1..Len(scores) : scores[k].playerId = id}
    IN IF hits = {} THEN 0 ELSE CHOOSE k \in hits : \A j \in hits : k <= j

\* A slot rule that appends the value where the slot is missing, without
\* filling the rounds in between.
PutAtWithoutFill(arr, roundIndex, value) ==
    IF Len(arr) > roundIndex THEN [arr EXCEPT ![roundIndex + 1] = value]
    ELSE Append(arr, value)

\* A slot rule that pushes also when the round already has a slot.
PutAtAlwaysPush(arr, roundIndex, value) ==
    IF Len(arr) >= roundIndex THEN Append(arr, value)
    ELSE Append(arr \o Fill(roundIndex - Len(arr), Num(0)), value)

\* A slot rule that takes the round number for the round index.
PutAtOneBased(arr, roundIndex, value) ==
    IF Len(arr) = roundIndex + 1 THEN Append(arr, value)
    ELSE IF Len(arr) > roundIndex + 1 THEN [arr EXCEPT ![roundIndex + 2] = value]
    ELSE Append(arr \o Fill(roundIndex + 1 - Len(arr), Num(0)), value)

\* The slot rule of handleScoreSubmit for one array: push at the exact round
\* index, overwrite an existing slot, otherwise fill the missing rounds with 0.
PutAt(arr, roundIndex, value) ==
    IF Len(arr) = roundIndex THEN Append(arr, value)
    ELSE IF Len(arr) > roundIndex THEN [arr EXCEPT ![roundIndex + 1] = value]
    ELSE Append(arr \o Fill(roundIndex - Len(arr), Num(0)), value)

\* A total that counts a negative score as 0.
OrZeroDropsNegatives(score) ==
    IF score = undefined \/ ~Less(Num(0), score) THEN Num(0) ELSE score

\* score || 0 inside the totalScore reduce
OrZero(score) == IF score = undefined \/ score = Num(0) THEN Num(0) ELSE score

RECURSIVE SumOrZero(_)
SumOrZero(scores) ==
    IF scores = <<>> THEN Num(0)
    ELSE Plus(SumOrZero(SubSeq(scores, 1, Len(scores) - 1)), OrZero(scores[Len(scores)]))

\* A submission that adds the round's score to the running total instead of
\* summing the scores again.
SubmitPlayerAddsToTotal(player, round, scores) ==
    IF ~player.isActive THEN player
    ELSE LET k == FindScore(scores, player.id) IN
         IF k = 0 THEN player
         ELSE LET newScores == PutAt(player.scores, round - 1, scores[k].score)
              IN [player EXCEPT !.scores = newScores,
                                !.totalScore = Plus(player.totalScore,
                                                    OrZero(scores[k].score))]

\* A submission whose total is the sum of the scores and the predictions.
SubmitPlayerCountsPredictions(player, round, scores) ==
    IF ~player.isActive THEN player
    ELSE LET k == FindScore(scores, player.id) IN
         IF k = 0 THEN player
         ELSE LET newScores == PutAt(player.scores, round - 1, scores[k].score)
                  newPredictions ==
                      IF player.predictions.defined /\ scores[k].prediction # undefined
                      THEN Predictions(PutAt(player.predictions.items, round - 1,
                                             scores[k].prediction))
                      ELSE player.predictions
              IN [player EXCEPT !.scores = newScores,
                                !.predictions = newPredictions,
                                !.totalScore = Plus(SumOrZero(newScores),
                                                    SumOrZero(newPredictions.items))]

\* A submission that does not skip inactive players.
SubmitPlayerScoresInactive(player, round, scores) ==
    LET k == FindScore(scores, player.id) IN
    IF k = 0 THEN player
    ELSE LET newScores == PutAt(player.scores, round - 1, scores[k].score)
         IN [player EXCEPT !.scores = newScores,
                           !.totalScore = SumOrZero(newScores)]

\* The body of prev.players.map(...) in handleScoreSubmit for one player.
SubmitPlayer(player, round, scores) ==
    IF ~player.isActive THEN player
    ELSE LET k == FindScore(scores, player.id) IN
         IF k = 0 THEN player
         ELSE LET roundScore == scores[k]
                  roundIndex == round - 1
                  newScores == PutAt(player.scores, roundIndex, roundScore.score)
                  newPredictions ==
                      IF player.predictions.defined /\ roundScore.prediction # undefined
                      THEN Predictions(PutAt(player.predictions.items, roundIndex,
                                             roundScore.prediction))
                      ELSE player.predictions
              IN [player EXCEPT !.scores = newScores,
                                !.predictions = newPredictions,
                                !.totalScore = SumOrZero(newScores)]

\* handleScoreSubmit: the players after the state update.
handleScoreSubmit(prevPlayers, prevRound, scores) ==
    [i \in 1..Len(prevPlayers) |-> SubmitPlayer(prevPlayers[i], prevRound, scores)]

\* players.reduce((sum, p) => sum + p.totalScore, 0)
RECURSIVE TotalPoints(_)
TotalPoints(ps) ==
    IF ps = <<>> THEN Num(0)
    ELSE Plus(TotalPoints(SubSeq(ps, 1, Len(ps) - 1)), ps[Len(ps)].totalScore)

\* A starting score computed without the guard for no players and round 0.
calculateStartingScoreUnguarded(ps, round) == TotalPoints(ps)

\* calculateStartingScore (a helper no handler calls)
calculateStartingScore(ps, round) ==
    IF Len(ps) = 0 \/ round = 0 THEN Num(0)
    ELSE LET totalPoints == TotalPoints(ps)
             avgScorePerRound == DivBy(totalPoints, round)
         IN Times(avgScorePerRound, round)

\* The players array after a call of calculateStartingScore: the function reads
\* the totals with reduce and assigns to no element and no field.
calculateStartingScoreLeaves(ps, round) == ps

\* A next round that skips a round.
handleNextRoundSkips(prevRound) == prevRound + 2

\* handleNextRound and handlePreviousRound: the round after the state update.
handleNextRound(prevRound) == prevRound + 1

handlePreviousRound(prevRound) == IF prevRound > 1 THEN prevRound - 1 ELSE prevRound

\* Date.now() in the id of a player added mid-game: a value no other player
\* of the game carries (the players of the setup screen carry their index).
Epoch == 1000
DateNow(prevPlayers) == Epoch + Len(prevPlayers)

\* A joiner whose previous rounds each carry the whole starting score.
NewPlayerUndivided(prevPlayers, round, dual, name, startingScore) ==
    [id |-> DateNow(prevPlayers),
     name |-> name,
     totalScore |-> startingScore,
     scores |-> Fill(round - 1, startingScore),
     predictions |-> IF dual THEN Predictions(Fill(round - 1, Num(0))) ELSE NoPredictions,
     joinedAtRound |-> round,
     isActive |-> TRUE,
     gaveUpAtRound |-> NoRound]

\* The player handleAddPlayer builds.
NewPlayer(prevPlayers, round, dual, name, startingScore) ==
    LET previousRounds == round - 1
        scorePerRound == IF previousRounds > 0 THEN DivBy(startingScore, previousRounds)
                         ELSE Num(0)
    IN [id |-> DateNow(prevPlayers),
        name |-> name,
        totalScore |-> startingScore,
        scores |-> Fill(previousRounds, scorePerRound),
        predictions |-> IF dual THEN Predictions(Fill(previousRounds, Num(0)))
                        ELSE NoPredictions,
        joinedAtRound |-> round,
        isActive |-> TRUE,
        gaveUpAtRound |-> NoRound]

\* handleAddPlayer: the players after the state update.
handleAddPlayer(prevPlayers, round, dual, name, startingScore) ==
    Append(prevPlayers, NewPlayer(prevPlayers, round, dual, name, startingScore))

\* A toggle whose rejoin starts the player over with an empty ledger.
TogglePlayerResetsOnRejoin(p, playerId, round) ==
    IF p.id # playerId THEN p
    ELSE IF p.isActive
         THEN [p EXCEPT !.isActive = FALSE, !.gaveUpAtRound = round]
         ELSE [p EXCEPT !.isActive = TRUE, !.joinedAtRound = round,
                        !.scores = <<>>, !.totalScore = Num(0)]

\* A toggle whose rejoin forgets the round the player gave up at.
TogglePlayerClearsGaveUp(p, playerId, round) ==
    IF p.id # playerId THEN p
    ELSE IF p.isActive
         THEN [p EXCEPT !.isActive = FALSE, !.gaveUpAtRound = round]
         ELSE [p EXCEPT !.isActive = TRUE, !.joinedAtRound = round,
                        !.gaveUpAtRound = NoRound]

\* A toggle whose rejoin leaves joinedAtRound at the round of the first entry.
TogglePlayerKeepsJoinRound(p, playerId, round) ==
    IF p.id # playerId THEN p
    ELSE IF p.isActive
         THEN [p EXCEPT !.isActive = FALSE, !.gaveUpAtRound = round]
         ELSE [p EXCEPT !.isActive = TRUE]

\* The body of prev.players.map(...) in handleTogglePlayerActive for one player.
TogglePlayer(p, playerId, round) ==
    IF p.id # playerId THEN p
    ELSE IF p.isActive
         THEN [p EXCEPT !.isActive = FALSE, !.gaveUpAtRound = round]
         ELSE [p EXCEPT !.isActive = TRUE, !.joinedAtRound = round,
                        !.gaveUpAtRound = p.gaveUpAtRound]

\* handleTogglePlayerActive: the players after the state update.
handleTogglePlayerActive(prevPlayers, round, playerId) ==
    IF \A i \in 1..Len(prevPlayers) : prevPlayers[i].id # playerId THEN prevPlayers
    ELSE [i \in 1..Len(prevPlayers) |-> TogglePlayer(prevPlayers[i], playerId, round)]

\* A play-again that keeps only the players of the setup screen and leaves the
\* lifecycle fields as they were.
handlePlayAgainDropsJoiners(prevPlayers, dual) ==
    LET kept == SelectSeq(prevPlayers, LAMBDA p : p.id < Epoch)
    IN [i \in 1..Len(kept) |->
           [kept[i] EXCEPT !.totalScore = Num(0),
                           !.scores = <<>>,
                           !.predictions = IF dual THEN Predictions(<<>>)
                                           ELSE NoPredictions]]

\* handlePlayAgain: the players after the state update.
handlePlayAgain(prevPlayers, dual) ==
    [i \in 1..Len(prevPlayers) |->
        [prevPlayers[i] EXCEPT !.totalScore = Num(0),
                               !.scores = <<>>,
                               !.predictions = IF dual THEN Predictions(<<>>)
                                               ELSE NoPredictions,
                               !.isActive = TRUE,
                               !.gaveUpAtRound = NoRound,
                               !.joinedAtRound = 1]]

(***************************************************************************)
(* Ranking: rankPlayers, determineWinner, ResultsScreen.sortedPlayers.     *)
(***************************************************************************)
\* A comparator that orders by descending total whatever highScoreWins is.
SortsBeforeDescending(a, b, highScoreWins) == Less(b.totalScore, a.totalScore)

\* The comparator (a, b) => highScoreWins ? b.totalScore - a.totalScore
\*                                        : a.totalScore - b.totalScore
\* is negative: a sorts before b.
SortsBefore(a, b, highScoreWins) ==
    IF highScoreWins THEN Less(b.totalScore, a.totalScore)
    ELSE Less(a.totalScore, b.totalScore)

\* A sort step that puts a player in front of the players it ties with.
InsertBeforeTies(sorted, player, highScoreWins) ==
    LET ahead == {k \in 1..Len(sorted) :
                     \A m \in 1..k : SortsBefore(sorted[m], player, highScoreWins)}
        n == Cardinality(ahead)
    IN SubSeq(sorted, 1, n) \o <<player>> \o SubSeq(sorted, n + 1, Len(sorted))

\* One step of the stable Array.prototype.sort: the player goes behind every
\* player that does not sort after it.
Insert(sorted, player, highScoreWins) ==
    LET ahead == {k \in 1..Len(sorted) :
                     \A m \in 1..k : ~SortsBefore(player, sorted[m], highScoreWins)}
        n == Cardinality(ahead)
    IN SubSeq(sorted, 1, n) \o <<player>> \o SubSeq(sorted, n + 1, Len(sorted))

\* rankPlayers: [...players].sort(comparator)
RECURSIVE rankPlayers(_, _)
rankPlayers(ps, highScoreWins) ==
    IF ps = <<>> THEN <<>>
    ELSE Insert(rankPlayers(SubSeq(ps, 1, Len(ps) - 1), highScoreWins),
                ps[Len(ps)], highScoreWins)

\* A winner that is the last of the sorted players.
determineWinnerTakesLast(ps, highScoreWins) ==
    IF Len(ps) = 0 THEN null
    ELSE rankPlayers(ps, highScoreWins)[Len(ps)]

\* determineWinner: null for no players, otherwise the first of the players
\* sorted with the comparator of rankPlayers.
determineWinner(ps, highScoreWins) ==
    IF Len(ps) = 0 THEN null
    ELSE LET sortedPlayers == rankPlayers(ps, highScoreWins)
         IN sortedPlayers[1]

(***************************************************************************)
(* GameScreen.tsx: what the screen hands to the Index handlers.            *)
(***************************************************************************)
\* parseFloat(value || "0") of an input field; the empty field is undefined here.
ParseOrZero(value) == IF value = undefined THEN Num(0) ELSE value

\* The positions of the active players, in display order.
RECURSIVE ActiveIndexes(_, _)
ActiveIndexes(ps, from) ==
    IF from > Len(ps) THEN <<>>
    ELSE IF ps[from].isActive THEN <<from>> \o ActiveIndexes(ps, from + 1)
    ELSE ActiveIndexes(ps, from + 1)

\* The RoundScore[] handleSubmitRound builds: one entry per active player, from
\* the score and prediction fields (typedScore, typedPrediction: by position).
RoundScores(ps, dual, typedScore, typedPrediction) ==
    LET act == ActiveIndexes(ps, 1)
    IN [k \in 1..Len(act) |->
           [playerId |-> ps[act[k]].id,
            score |-> ParseOrZero(typedScore[act[k]]),
            prediction |-> IF dual THEN ParseOrZero(typedPrediction[act[k]])
                           ELSE undefined]]

\* A starting score passed on as typed, in round 1 too.
StartingScoreAsTyped(round, typed) == ParseOrZero(typed)

\* The starting score GameScreen.handleAddPlayer passes on.
StartingScore(round, typed) == IF round = 1 THEN Num(0) ELSE ParseOrZero(typed)

\* What a score field can hold: nothing, or a typed number.
Field(inputs) == {undefined} \cup {Num(v) : v \in inputs}

\* How the slot rule treated one player in a submission.
SlotKind(player, round, scores) ==
    IF ~player.isActive \/ FindScore(scores, player.id) = 0 THEN "skip"
    ELSE IF Len(player.scores) = round - 1 THEN "append"
    ELSE IF Len(player.scores) > round - 1 THEN "overwrite"
    ELSE "fill"

\* The name lastOp gives a Save & Next: a re-submission is one of a round below
\* the highest round reached; "Fill" when some player's missing rounds were filled.
SubmitOp(again, filled) ==
    IF again THEN (IF filled THEN "resubmitFill" ELSE "resubmit")
    ELSE (IF filled THEN "submitFill" ELSE "submit")

\* validatePlayerCount / SetupScreen: a game starts with at least 2 and at
\* most 10 players.
MinPlayers == 2
MaxPlayerCount == 10

(***************************************************************************)
(* ScoreGraph: the chart data.                                             *)
(***************************************************************************)
\* What the chart code does with dataPoint[player.name] for one player and
\* round: assign a number, assign null, or return without assigning.
Value(v) == [kind |-> "value", v |-> v]
Null == [kind |-> "null", v |-> undefined]
Absent == [kind |-> "absent", v |-> undefined]

\* isPlayerVisible
isPlayerVisible(selectedPlayerIds, playerId) == playerId \in selectedPlayerIds

\* A chart that counts the round in play as completed.
completedRoundsWithCurrent(round) == round

completedRounds(round) == IF round - 1 > 0 THEN round - 1 ELSE 0

isJustJoined(player, round) == player.joinedAtRound = round

isJustRejoined(player, round) ==
    player.gaveUpAtRound # NoRound /\ player.joinedAtRound = round /\ player.isActive

\* A chart point that is the score of the round alone, not the running sum.
cumulativeScoreOfRoundOnly(player, roundIndex) == player.scores[roundIndex + 1]

\* player.scores.slice(0, roundIndex + 1).reduce((sum, score) => sum + score, 0)
cumulativeScore(player, roundIndex) ==
    calculateCumulativeScore(SubSeq(player.scores, 1, roundIndex + 1))

\* A chart that computes the point of a player without looking at the
\* visibility filter.
PlayerPointIgnoresFilter(player, round, curRound, selectedPlayerIds) ==
    IF round = 0 THEN (IF player.joinedAtRound > 1 THEN Absent ELSE Value(Num(0)))
    ELSE IF round - 1 >= Len(player.scores) THEN Absent
    ELSE Value(cumulativeScore(player, round - 1))

\* A chart that draws the slots of the rounds a rejoined player sat out.
PlayerPointDrawsGap(player, round, curRound, selectedPlayerIds) ==
    LET roundIndex == round - 1 IN
    IF round = 0 THEN
        IF ~isPlayerVisible(selectedPlayerIds, player.id) THEN Null
        ELSE IF player.joinedAtRound > 1 THEN Absent
        ELSE Value(Num(0))
    ELSE IF ~isPlayerVisible(selectedPlayerIds, player.id) THEN Null
    ELSE IF isJustJoined(player, curRound) /\ round = completedRounds(curRound)
        THEN Value(player.totalScore)
    ELSE IF isJustRejoined(player, curRound) /\ round = completedRounds(curRound)
        THEN Value(player.totalScore)
    ELSE IF ~player.isActive /\ player.gaveUpAtRound # NoRound
            /\ round >= player.gaveUpAtRound
        THEN Absent
    ELSE IF roundIndex >= Len(player.scores) THEN Absent
    ELSE Value(cumulativeScore(player, roundIndex))

\* The body of players.forEach(...) for one player and one round of the chart.
PlayerPoint(player, round, curRound, selectedPlayerIds) ==
    LET roundIndex == round - 1 IN
    IF round = 0 THEN
        IF ~isPlayerVisible(selectedPlayerIds, player.id) THEN Null
        ELSE IF player.joinedAtRound > 1 THEN Absent
        ELSE Value(Num(0))
    ELSE IF ~isPlayerVisible(selectedPlayerIds, player.id) THEN Null
    ELSE IF isJustJoined(player, curRound) /\ round = completedRounds(curRound)
        THEN Value(player.totalScore)
    ELSE IF isJustRejoined(player, curRound) /\ round = completedRounds(curRound)
        THEN Value(player.totalScore)
    ELSE IF player.gaveUpAtRound # NoRound /\ round < player.gaveUpAtRound
        THEN IF roundIndex >= Len(player.scores) THEN Absent
             ELSE Value(cumulativeScore(player, roundIndex))
    ELSE IF player.gaveUpAtRound # NoRound /\ round >= player.gaveUpAtRound
            /\ round < player.joinedAtRound - 1
        THEN Absent
    ELSE IF round < player.joinedAtRound - 1 THEN Absent
    ELSE IF ~player.isActive /\ player.gaveUpAtRound # NoRound
            /\ round >= player.gaveUpAtRound
        THEN Absent
    ELSE IF roundIndex >= Len(player.scores) THEN Absent
    ELSE Value(cumulativeScore(player, roundIndex))

\* dataPoint after the first n players of players.forEach(...): keys are player
\* names, and a later player's assignment replaces an earlier one's.
RECURSIVE DataPoint(_, _, _, _, _)
DataPoint(ps, n, round, curRound, selectedPlayerIds) ==
    IF n = 0 THEN <<>>
    ELSE LET before == DataPoint(ps, n - 1, round, curRound, selectedPlayerIds)
             point == PlayerPoint(ps[n], round, curRound, selectedPlayerIds)
         IN IF point = Absent THEN before
            ELSE [k \in DOMAIN before \cup {ps[n].name} |->
                     IF k = ps[n].name THEN point ELSE before[k]]

\* The rounds of the chart: 0..completedRounds; no chart before round 1 is completed.
ChartRounds(curRound) ==
    IF completedRounds(curRound) = 0 THEN {} ELSE 0..completedRounds(curRound)

\* chartData[round]
chartData(ps, curRound, selectedPlayerIds, round) ==
    DataPoint(ps, Len(ps), round, curRound, selectedPlayerIds)

\* What the line of the player named name shows at a round: the value of the
\* key, a missing key counting as no data like null.
LineValue(dataPoint, name) ==
    IF name \in DOMAIN dataPoint THEN dataPoint[name] ELSE Absent

NoData(point) == point.kind # "value"

\* What the <Line> of a player draws at a round: nothing when the line is hidden
\* (hide = !isVisible), otherwise the value under its dataKey, the player's name.
Line(ps, i, curRound, selectedPlayerIds, round) ==
    IF ~isPlayerVisible(selectedPlayerIds, ps[i].id) THEN Absent
    ELSE LineValue(chartData(ps, curRound, selectedPlayerIds, round), ps[i].name)

(***************************************************************************)
(* gameLogic: the graph data of the library.                               *)
(***************************************************************************)
\* isPlayerActiveInRound
isPlayerActiveInRound(player, round) ==
    IF player.joinedAtRound > round THEN FALSE
    ELSE IF ~player.isActive THEN FALSE
    ELSE IF player.gaveUpAtRound # NoRound /\ player.gaveUpAtRound <= round THEN FALSE
    ELSE TRUE

\* array.slice(0, end)
SliceTo(arr, end) == SubSeq(arr, 1, IF end < Len(arr) THEN end ELSE Len(arr))

\* generateGraphData: dataPoint[player.id] of the data point of a round.
GraphDataPoint(player, round) ==
    IF player.joinedAtRound <= round
    THEN LET relevantScores == SliceTo(player.scores, round)
             cumulative == calculateCumulativeScore(relevantScores)
         IN IF isPlayerActiveInRound(player, round) THEN Value(cumulative) ELSE Null
    ELSE Null

(***************************************************************************)
(* useGamePersistence, the backend and the results screen.                 *)
(***************************************************************************)
\* The id createGame returns for the n-th game of the backend.
GameId(n) == [kind |-> "uuid", n |-> n]

\* syncError after a failed operation.
SyncError(message) == [kind |-> "error", message |-> message]

\* The persistence state at mount and after resetPersistence (playerIdentities
\* is not modelled: a participant is found by its player_order).
resetPersistence ==
    [gameId |-> null, isSyncing |-> FALSE, lastSyncedRound |-> 0, syncError |-> null]

\* setPersistenceState(prev => ({...prev, isSyncing: true, syncError: null}))
BeginSync(prev) == [prev EXCEPT !.isSyncing = TRUE, !.syncError = null]

\* A catch branch that records the error and leaves isSyncing as it is.
SyncFailedKeepsSyncing(prev, message) == [prev EXCEPT !.syncError = SyncError(message)]

\* The catch branch of an operation:
\* setPersistenceState(prev => ({...prev, isSyncing: false, syncError: ...}))
SyncFailed(prev, message) ==
    [prev EXCEPT !.isSyncing = FALSE, !.syncError = SyncError(message)]

\* The operations awaiting the backend, each with the arguments its closure holds.
PendingInitializeGame(ps, dual) ==
    [op |-> "initializeGame", players |-> ps, isDualScoring |-> dual]

PendingSaveRound(gameId, roundNumber, ps) ==
    [op |-> "saveRound", gameId |-> gameId, roundNumber |-> roundNumber, players |-> ps]

PendingPlayerJoin(gameId, player, playerOrder) ==
    [op |-> "handlePlayerJoin", gameId |-> gameId, player |-> player,
     playerOrder |-> playerOrder]

PendingPlayerStatusChange(gameId, playerOrder, isActive, gaveUpAtRound) ==
    [op |-> "handlePlayerStatusChange", gameId |-> gameId, playerOrder |-> playerOrder,
     isActive |-> isActive, gaveUpAtRound |-> gaveUpAtRound]

PendingFinishGame(gameId, ps, totalRounds, highScoreWins) ==
    [op |-> "finishGame", gameId |-> gameId, players |-> ps, totalRounds |-> totalRounds,
     highScoreWins |-> highScoreWins]

PendingAnalysis == [op |-> "generateAnalysis"]

\* The message of the catch branch when the error carries none.
FailureMessage(op) ==
    CASE op.op = "initializeGame" -> "Failed to save game"
      [] op.op = "saveRound" -> "Failed to save round"
      [] op.op = "handlePlayerJoin" -> "Failed to save player join"
      [] op.op = "handlePlayerStatusChange" -> "Failed to save status change"
      [] OTHER -> "Failed to finalize game"

\* array[index] of JavaScript for a 0-based index: undefined past the end.
ItemAt(arr, index) == IF index < Len(arr) THEN arr[index + 1] ELSE undefined

\* prediction || null
OrNull(prediction) ==
    IF prediction = null \/ prediction = undefined \/ prediction = Num(0) THEN null
    ELSE prediction

\* saveRoundScores: the record of the player at position index (from 1) of the
\* snapshot; participant_id is the participant of that game and player_order.
RoundRecord(gameId, roundNumber, ps, index) ==
    LET player == ps[index]
        scoreIndex == roundNumber - 1
        score == OrZero(ItemAt(player.scores, scoreIndex))
        prediction == IF player.predictions.defined
                      THEN ItemAt(player.predictions.items, scoreIndex)
                      ELSE null
    IN [game_id |-> gameId,
        player_order |-> index - 1,
        round_number |-> roundNumber,
        score |-> score,
        prediction |-> OrNull(prediction),
        cumulative_score |-> player.totalScore]

\* saveRoundScores: the records it inserts.
saveRoundScores(gameId, roundNumber, ps) ==
    {RoundRecord(gameId, roundNumber, ps, index) : index \in 1..Len(ps)}

\* The statistics of the signed-in user; the row is created with the first
\* finished game, and a missing row shows as zeros.
NoStatistics ==
    [total_games_played |-> 0, total_games_won |-> 0, total_rounds_played |-> 0]

\* The backend before the first game.  games holds the rows of the games in the
\* order of their creation, GameId(n) being the id of the n-th.
EmptyDatabase ==
    [games |-> <<>>, game_participants |-> {}, round_scores |-> {},
     user_statistics |-> NoStatistics]

\* createGame: the row it inserts.
GameRow(dual) == [is_dual_scoring |-> dual, total_rounds |-> 1, is_finished |-> FALSE]

\* The id of the signed-in user, and the name the account shows:
\* user_metadata.full_name, or the part of the email address before the @.
UserId == [kind |-> "user"]
userDisplayName == "Player 1"

\* name.toLowerCase().includes(part.toLowerCase()), for the names of the model.
Includes(name, part) ==
    IF part = "Player 1" THEN name \in {"Player 1", "Player 10", "Player 11", "Player 12"}
    ELSE name = part

\* createPlayerIdentityMappings: the userId of the identity of a player.
IdentityUserId(player) ==
    IF userDisplayName # "" /\ Includes(player.name, userDisplayName) THEN UserId
    ELSE null

\* createParticipants and addParticipant: the row of a player (final_rank and
\* is_winner take their defaults; gave_up_at_round NoRound stands for NULL).
Participant(gameId, player, playerOrder) ==
    [game_id |-> gameId,
     user_id |-> IdentityUserId(player),
     player_name |-> player.name,
     player_order |-> playerOrder,
     total_score |-> player.totalScore,
     final_rank |-> null,
     is_winner |-> FALSE,
     joined_at_round |-> player.joinedAtRound,
     gave_up_at_round |-> player.gaveUpAtRound,
     is_active |-> player.isActive]

\* The participants of a game, and whether one holds a player_order.
ParticipantsOf(db, gameId) == {row \in db.game_participants : row.game_id = gameId}

ParticipantExists(db, gameId, playerOrder) ==
    \E row \in ParticipantsOf(db, gameId) : row.player_order = playerOrder

\* A value an INTEGER column takes.
IsInteger(x) == x.den = 1

\* UNIQUE(game_id, participant_id, round_number) of round_scores.
RoundRecordExists(db, row) ==
    \E other \in db.round_scores :
        /\ other.game_id = row.game_id
        /\ other.player_order = row.player_order
        /\ other.round_number = row.round_number

\* The participants of a game that are linked to a user account.
Linked(db, gameId) == {row \in ParticipantsOf(db, gameId) : row.user_id # null}

\* Whether the operation goes through when the backend answers: saveRoundScores
\* finds a participant for every player of the snapshot and its insert meets the
\* column types and the unique key; addParticipant meets UNIQUE(game_id,
\* player_order) and the column type of total_score; the update of the game by
\* finalizeGame meets CHECK (total_rounds > 0), and the INSERT ... ON CONFLICT
\* of the statistics trigger touches the row of a user at most once.
Accepts(db, op) ==
    CASE op.op = "saveRound" ->
           /\ \A index \in 1..Len(op.players) :
                ParticipantExists(db, op.gameId, index - 1)
           /\ \A row \in saveRoundScores(op.gameId, op.roundNumber, op.players) :
                /\ IsInteger(row.score)
                /\ IsInteger(row.cumulative_score)
                /\ IF row.prediction = null THEN TRUE ELSE IsInteger(row.prediction)
                /\ ~RoundRecordExists(db, row)
      [] op.op = "handlePlayerJoin" ->
           /\ ~ParticipantExists(db, op.gameId, op.playerOrder)
           /\ IsInteger(op.player.totalScore)
      [] op.op = "finishGame" ->
           /\ op.totalRounds > 0
           /\ IF db.games[op.gameId.n].is_finished THEN TRUE
              ELSE Cardinality(Linked(db, op.gameId)) <= 1
      [] OTHER -> TRUE

\* players.findIndex(p => p.id === id), from 0; -1 when there is none.
FindIndex(ps, id) ==
    LET hits == {k \in 1..Len(ps) : ps[k].id = id}
    IN IF hits = {} THEN -1 ELSE (CHOOSE k \in hits : \A j \in hits : k <= j) - 1

\* update_user_statistics, the trigger after an update of a game: when the game
\* is being marked as finished, the statistics of the user count the game, and
\* count it as won when the user's participant carries is_winner.
update_user_statistics(db, old, new, gameId) ==
    IF new.is_finished /\ ~old.is_finished /\ Linked(db, gameId) # {}
    THEN LET gp == CHOOSE row \in Linked(db, gameId) : TRUE
             stats == db.user_statistics
         IN [db EXCEPT !.user_statistics =
                [total_games_played |-> stats.total_games_played + 1,
                 total_games_won |-> stats.total_games_won
                                       + (IF gp.is_winner THEN 1 ELSE 0),
                 total_rounds_played |-> stats.total_rounds_played + new.total_rounds]]
    ELSE db

\* finalizeGame: the update of one participant in the loop over sortedPlayers
\* (the last update of a row stands; an update whose total_score is no INTEGER
\* fails, and its error is not looked at).
FinalParticipant(row, ps, sortedPlayers) ==
    LET ranks == {i \in 1..Len(sortedPlayers) :
                     FindIndex(ps, sortedPlayers[i].id) = row.player_order}
    IN IF ranks = {} THEN row
       ELSE LET i == CHOOSE r \in ranks : \A q \in ranks : q <= r
                player == sortedPlayers[i]
                winner == sortedPlayers[1]
            IN IF ~IsInteger(player.totalScore) THEN row
               ELSE [row EXCEPT !.total_score = player.totalScore,
                                !.final_rank = Num(i),
                                !.is_winner = (player.id = winner.id)]

\* finalizeGame: the game is marked as finished, which runs the trigger, and
\* then the participants get their totals, ranks and is_winner.
finalizeGame(db, gameId, ps, highScoreWins, totalRounds) ==
    LET sortedPlayers == rankPlayers(ps, highScoreWins)
        old == db.games[gameId.n]
        new == [old EXCEPT !.is_finished = TRUE, !.total_rounds = totalRounds]
        updated == update_user_statistics([db EXCEPT !.games[gameId.n] = new],
                                          old, new, gameId)
    IN [updated EXCEPT !.game_participants =
            {IF row.game_id = gameId THEN FinalParticipant(row, ps, sortedPlayers)
             ELSE row : row \in updated.game_participants}]

\* updateParticipant: the rows of the game and player_order with the updates.
updateParticipant(db, gameId, playerOrder, isActive, gaveUpAtRound) ==
    [db EXCEPT !.game_participants =
        {IF row.game_id = gameId /\ row.player_order = playerOrder
         THEN [row EXCEPT !.is_active = isActive, !.gave_up_at_round = gaveUpAtRound]
         ELSE row : row \in db.game_participants}]

\* The backend after the operation went through.
Apply(db, op) ==
    CASE op.op = "initializeGame" ->
           [db EXCEPT !.games = Append(db.games, GameRow(op.isDualScoring)),
                      !.game_participants =
                          db.game_participants \cup
                          {Participant(GameId(Len(db.games) + 1), op.players[index],
                                       index - 1) :
                               index \in 1..Len(op.players)}]
      [] op.op = "saveRound" ->
           [db EXCEPT !.round_scores =
                          db.round_scores \cup
                          saveRoundScores(op.gameId, op.roundNumber, op.players)]
      [] op.op = "handlePlayerJoin" ->
           [db EXCEPT !.game_participants =
                          db.game_participants \cup
                          {[Participant(op.gameId, op.player, op.playerOrder)
                               EXCEPT !.gave_up_at_round = NoRound]}]
      [] op.op = "handlePlayerStatusChange" ->
           updateParticipant(db, op.gameId, op.playerOrder, op.isActive,
                             op.gaveUpAtRound)
      [] op.op = "finishGame" ->
           finalizeGame(db, op.gameId, op.players, op.highScoreWins, op.totalRounds)
      [] OTHER -> db

\* The persistence state after the operation went through: the state update
\* at the end of its try block.
Done(prev, db, op) ==
    CASE op.op = "initializeGame" ->
           [prev EXCEPT !.gameId = GameId(Len(db.games) + 1), !.isSyncing = FALSE,
                        !.lastSyncedRound = 0]
      [] op.op = "saveRound" ->
           [prev EXCEPT !.isSyncing = FALSE, !.lastSyncedRound = op.roundNumber]
      [] OTHER -> [prev EXCEPT !.isSyncing = FALSE]

\* [...numbers].sort((a, b) => a - b) of a set of numbers.
RECURSIVE Ascending(_)
Ascending(numbers) ==
    IF numbers = {} THEN <<>>
    ELSE LET least == CHOOSE n \in numbers : \A m \in numbers : n <= m
         IN <<least>> \o Ascending(numbers \ {least})

\* rs.prediction || 0
PredictionOrZero(prediction) == IF prediction = null THEN Num(0) ELSE prediction

\* GameDetail: the player built from a participant and its round records, in
\* the order of their round numbers.  scores holds the cumulative_score of each
\* record; the id of the participant is told apart by its player_order.
GameDetailPlayer(db, participant) ==
    LET records == {rs \in db.round_scores :
                       /\ rs.game_id = participant.game_id
                       /\ rs.player_order = participant.player_order}
        roundNumbers == Ascending({rs.round_number : rs \in records})
        participantScores ==
            [k \in 1..Len(roundNumbers) |->
                CHOOSE rs \in records : rs.round_number = roundNumbers[k]]
        scores == [k \in 1..Len(roundNumbers) |-> OrZero(participantScores[k].cumulative_score)]
        predictions == [k \in 1..Len(roundNumbers) |->
                           PredictionOrZero(participantScores[k].prediction)]
    IN [id |-> participant.player_order,
        name |-> participant.player_name,
        totalScore |-> participant.total_score,
        scores |-> scores,
        predictions |-> IF db.games[participant.game_id.n].is_dual_scoring
                        THEN Predictions(predictions) ELSE NoPredictions,
        joinedAtRound |-> participant.joined_at_round,
        isActive |-> participant.is_active,
        gaveUpAtRound |-> participant.gave_up_at_round]

\* GameDetail: the players of a saved game, sorted by player_order.
GameDetailPlayers(db, gameId) ==
    LET orders == Ascending({row.player_order : row \in ParticipantsOf(db, gameId)})
    IN [k \in 1..Len(orders) |->
           GameDetailPlayer(db, CHOOSE row \in ParticipantsOf(db, gameId) :
                                    row.player_order = orders[k])]

\* GameDetail: what the line of the k-th player of the saved game shows at a
\* round; the chart gets currentRound = total_rounds + 1 and every player selected.
GameDetailLine(db, gameId, k, round) ==
    LET ps == GameDetailPlayers(db, gameId)
        curRound == db.games[gameId.n].total_rounds + 1
    IN IF round \in ChartRounds(curRound)
       THEN Line(ps, k, curRound, {ps[j].id : j \in 1..Len(ps)}, round)
       ELSE Absent

\* ResultsScreen at mount.
NoAnalysis == [analysis |-> "", isLoading |-> FALSE, showAnalysis |-> FALSE]

\* The text the analysis function returns.
AnalysisText == "analysis"

\* The text shown when the analysis could not be generated.
FallbackText == "Unable to generate analysis at this time. The game was epic nonetheless!"

\* generateAnalysis: the catch and finally blocks.
AnalysisFailed(prev) == [prev EXCEPT !.analysis = FallbackText, !.isLoading = FALSE]

\* generateAnalysis: the end of the try block, and the finally block.
AnalysisDone(prev) == [prev EXCEPT !.analysis = AnalysisText, !.isLoading = FALSE]

IsPersistenceOp(op) == op.op # "generateAnalysis"

RemoveAt(seq, k) == SubSeq(seq, 1, k - 1) \o SubSeq(seq, k + 1, Len(seq))

\* What lastOp records when an operation went through, and when it failed.
Succeeded(op) ==
    CASE op.op = "initializeGame" -> "initializeGame.done"
      [] op.op = "saveRound" -> "saveRound.done"
      [] op.op = "handlePlayerJoin" -> "handlePlayerJoin.done"
      [] op.op = "handlePlayerStatusChange" -> "handlePlayerStatusChange.done"
      [] op.op = "finishGame" -> "finishGame.done"
      [] OTHER -> "generateAnalysis.done"

Failed(op) ==
    CASE op.op = "initializeGame" -> "initializeGame.failed"
      [] op.op = "saveRound" -> "saveRound.failed"
      [] op.op = "handlePlayerJoin" -> "handlePlayerJoin.failed"
      [] op.op = "handlePlayerStatusChange" -> "handlePlayerStatusChange.failed"
      [] op.op = "finishGame" -> "finishGame.failed"
      [] OTHER -> "generateAnalysis.failed"

(***************************************************************************)
(* The state machine.                                                      *)
(***************************************************************************)
\* The state after the page is mounted, signed in or not.
Mounted(signedIn) ==
    /\ gamePhase = "setup"
    /\ players = <<>>
    /\ currentRound = 1
    /\ isDualScoring = FALSE
    /\ newPlayerScore = undefined
    /\ highestRound = 1
    /\ toggles = 0
    /\ backs = 0
    /\ firstSegment = <<>>
    /\ lastOp = "init"
    /\ user = signedIn
    /\ persistenceState = resetPersistence
    /\ inFlight = <<>>
    /\ database = EmptyDatabase
    /\ resultsScreen = NoAnalysis

Init == Mounted(FALSE)

\* SetupScreen.handleStart: an empty name field becomes the placeholder name of
\* its position; a typed name is kept (names need not differ).
FinalNames(typed) ==
    [i \in 1..Len(typed) |-> IF typed[i] = "" THEN PlayerNames[i] ELSE typed[i]]

\* A handler calls an operation of the hook, the persistence state being prev:
\* the operation returns at once without a user, or without a game id where it
\* needs one (the id its closure holds, that of the last render); otherwise it
\* marks the state as syncing and awaits the backend.
Call(prev, op, needsGameId) ==
    IF ~user \/ (needsGameId /\ persistenceState.gameId = null)
    THEN /\ persistenceState' = prev
         /\ inFlight' = inFlight
    ELSE /\ persistenceState' = BeginSync(prev)
         /\ inFlight' = Append(inFlight, op)

\* The model lets at most MaxInFlight operations await the backend.
MayCall == Len(inFlight) < MaxInFlight

\* The model lets a signed-in user create at most MaxGames games.
MayCreateGame ==
    user => Len(database.games)
              + Cardinality({k \in 1..Len(inFlight) : inFlight[k].op = "initializeGame"})
              < MaxGames

\* SetupScreen "Start": handleStart, then handleStartGame.
Start(maxStart, dualChoices, nameInputs) ==
    /\ gamePhase = "setup"
    /\ MayCall
    /\ MayCreateGame
    /\ \E n \in MinPlayers..maxStart, dual \in dualChoices :
         /\ \E typed \in [1..n -> nameInputs] :
              players' = StartPlayers(FinalNames(typed), dual)
         /\ isDualScoring' = dual
         /\ firstSegment' = [i \in 1..n |-> 1]
    /\ currentRound' = 1
    /\ gamePhase' = "playing"
    /\ newPlayerScore' = undefined
    /\ highestRound' = 1
    /\ toggles' = 0
    /\ backs' = 0
    /\ lastOp' = "start"
    /\ Call(persistenceState, PendingInitializeGame(players', isDualScoring'), FALSE)
    /\ UNCHANGED <<user, database, resultsScreen>>

\* GameScreen "Save & Next": handleSubmitRound = handleScoreSubmit, then
\* handleNextRound, which hands saveRound the round and the players of the
\* gameState of the last render.
Submit(maxRound, scoreInputs) ==
    /\ gamePhase = "playing"
    /\ currentRound < maxRound
    /\ MayCall
    /\ \E typedScore \in [1..Len(players) -> Field(scoreInputs)],
          typedPrediction \in [1..Len(players) ->
                                 IF isDualScoring THEN Field(PredictionInputs)
                                 ELSE {undefined}] :
         LET scores == RoundScores(players, isDualScoring, typedScore, typedPrediction)
             kinds == {SlotKind(players[i], currentRound, scores) : i \in 1..Len(players)}
         IN /\ players' = handleScoreSubmit(players, currentRound, scores)
            /\ lastOp' = SubmitOp(currentRound < highestRound, "fill" \in kinds)
    /\ currentRound' = handleNextRound(currentRound)
    /\ highestRound' = IF currentRound' > highestRound THEN currentRound' ELSE highestRound
    /\ Call(persistenceState,
            PendingSaveRound(persistenceState.gameId, currentRound, players), TRUE)
    /\ UNCHANGED <<gamePhase, isDualScoring, newPlayerScore, toggles, backs, firstSegment,
                   user, database, resultsScreen>>

\* GameScreen "Previous round" (disabled in round 1): handlePreviousRound.
PreviousRound ==
    /\ gamePhase = "playing"
    /\ currentRound # 1
    /\ backs < MaxBacks
    /\ currentRound' = handlePreviousRound(currentRound)
    /\ backs' = backs + 1
    /\ lastOp' = "previous"
    /\ UNCHANGED <<gamePhase, players, isDualScoring, newPlayerScore, highestRound, toggles,
                   firstSegment, user, persistenceState, inFlight, database,
                   resultsScreen>>

\* Add-player dialog: typing into the starting score field (disabled in round 1).
TypeStartingScore ==
    /\ gamePhase = "playing"
    /\ currentRound # 1
    /\ \E v \in Field(StartingScoreInputs) :
         /\ v # newPlayerScore
         /\ newPlayerScore' = v
    /\ lastOp' = "type"
    /\ UNCHANGED <<gamePhase, players, currentRound, isDualScoring, highestRound,
                   toggles, backs, firstSegment, user, persistenceState, inFlight,
                   database, resultsScreen>>

\* Add-player dialog "Add player": GameScreen.handleAddPlayer, then
\* handleAddPlayer, which hands handlePlayerJoin the new player and its position.
Add(maxPlayers) ==
    /\ gamePhase = "playing"
    /\ Len(players) < maxPlayers
    /\ MayCall
    /\ players' = handleAddPlayer(players, currentRound, isDualScoring,
                                  PlayerNames[Len(players) + 1],
                                  StartingScore(currentRound, newPlayerScore))
    /\ newPlayerScore' = undefined
    /\ firstSegment' = Append(firstSegment, currentRound)
    /\ lastOp' = IF ParseOrZero(newPlayerScore) = Num(0) THEN "add" ELSE "addNonZero"
    /\ Call(persistenceState,
            PendingPlayerJoin(persistenceState.gameId, players'[Len(players')],
                              Len(players)), TRUE)
    /\ UNCHANGED <<gamePhase, currentRound, isDualScoring, highestRound, toggles, backs,
                   user, database, resultsScreen>>

\* "Give up" / "Rejoin" button of a player: handleToggleActive, then
\* handleTogglePlayerActive, which hands handlePlayerStatusChange the player's
\* position, its new status and the round of the give-up.
TogglePlayerActive ==
    /\ gamePhase = "playing"
    /\ toggles < MaxToggles
    /\ MayCall
    /\ \E i \in 1..Len(players) :
         /\ players' = handleTogglePlayerActive(players, currentRound, players[i].id)
         /\ lastOp' = IF players[i].isActive THEN "giveUp" ELSE "rejoin"
         /\ Call(persistenceState,
                 PendingPlayerStatusChange(persistenceState.gameId, i - 1,
                                           ~players[i].isActive,
                                           IF ~players[i].isActive
                                           THEN players[i].gaveUpAtRound
                                           ELSE currentRound), TRUE)
    /\ toggles' = toggles + 1
    /\ UNCHANGED <<gamePhase, currentRound, isDualScoring, newPlayerScore, highestRound,
                   backs, firstSegment, user, database, resultsScreen>>

\* "Finish game": handleFinishGame.  The game screen is unmounted, the results
\* screen mounted.
FinishGame ==
    /\ gamePhase = "playing"
    /\ MayCall
    /\ gamePhase' = "results"
    /\ newPlayerScore' = undefined
    /\ lastOp' = "finish"
    /\ resultsScreen' = NoAnalysis
    /\ \E highScoreWins \in BOOLEAN :
         Call(persistenceState,
              PendingFinishGame(persistenceState.gameId, players, currentRound - 1,
                                highScoreWins), TRUE)
    /\ UNCHANGED <<players, currentRound, isDualScoring, highestRound, toggles, backs,
                   firstSegment, user, database>>

\* Results screen "Generate analysis" (shown until it is pressed): generateAnalysis
\* up to its await.
GenerateAnalysis ==
    /\ gamePhase = "results"
    /\ ~resultsScreen.showAnalysis
    /\ ~resultsScreen.isLoading
    /\ MayCall
    /\ resultsScreen' = [resultsScreen EXCEPT !.isLoading = TRUE, !.showAnalysis = TRUE]
    /\ inFlight' = Append(inFlight, PendingAnalysis)
    /\ lastOp' = "generateAnalysis"
    /\ UNCHANGED <<gamePhase, players, currentRound, isDualScoring, newPlayerScore,
                   highestRound, toggles, backs, firstSegment, user, persistenceState,
                   database>>

\* The operations still awaited once the results screen is unmounted: the answer
\* to its analysis request finds no component to update.
AfterUnmount(pending) == SelectSeq(pending, IsPersistenceOp)

\* Results screen "Play again": handlePlayAgain (resetPersistence, the new
\* ledger, initializeGame).
PlayAgain ==
    /\ gamePhase = "results"
    /\ Len(AfterUnmount(inFlight)) < MaxInFlight
    /\ MayCreateGame
    /\ players' = handlePlayAgain(players, isDualScoring)
    /\ currentRound' = 1
    /\ gamePhase' = "playing"
    /\ highestRound' = 1
    /\ toggles' = 0
    /\ backs' = 0
    /\ firstSegment' = [i \in 1..Len(players) |-> 1]
    /\ lastOp' = "playAgain"
    /\ resultsScreen' = NoAnalysis
    /\ IF ~user
       THEN /\ persistenceState' = resetPersistence
            /\ inFlight' = AfterUnmount(inFlight)
       ELSE /\ persistenceState' = BeginSync(resetPersistence)
            /\ inFlight' = Append(AfterUnmount(inFlight),
                                  PendingInitializeGame(handlePlayAgain(players,
                                                                        isDualScoring),
                                                        isDualScoring))
    /\ UNCHANGED <<isDualScoring, newPlayerScore, user, database>>

\* Results screen "New game": handleNewGame (resetPersistence, the empty ledger).
NewGame ==
    /\ gamePhase = "results"
    /\ gamePhase' = "setup"
    /\ players' = <<>>
    /\ currentRound' = 1
    /\ isDualScoring' = FALSE
    /\ highestRound' = 1
    /\ toggles' = 0
    /\ backs' = 0
    /\ firstSegment' = <<>>
    /\ lastOp' = "newGame"
    /\ persistenceState' = resetPersistence
    /\ inFlight' = AfterUnmount(inFlight)
    /\ resultsScreen' = NoAnalysis
    /\ UNCHANGED <<newPlayerScore, user, database>>

\* The backend answers an operation in flight and the operation goes through:
\* the rest of its try block runs.
OperationSucceeds ==
    /\ \E k \in 1..Len(inFlight) :
         LET op == inFlight[k] IN
         /\ Accepts(database, op)
         /\ inFlight' = RemoveAt(inFlight, k)
         /\ lastOp' = Succeeded(op)
         /\ IF IsPersistenceOp(op)
            THEN /\ persistenceState' = Done(persistenceState, database, op)
                 /\ database' = Apply(database, op)
                 /\ UNCHANGED resultsScreen
            ELSE /\ resultsScreen' = AnalysisDone(resultsScreen)
                 /\ UNCHANGED <<persistenceState, database>>
    /\ UNCHANGED <<gamePhase, players, currentRound, isDualScoring, newPlayerScore,
                   highestRound, toggles, backs, firstSegment, user>>

\* An operation in flight fails (the network, the backend, or a request the
\* backend does not accept): its catch block runs.
OperationFails ==
    /\ \E k \in 1..Len(inFlight) :
         LET op == inFlight[k] IN
         /\ inFlight' = RemoveAt(inFlight, k)
         /\ lastOp' = Failed(op)
         /\ IF IsPersistenceOp(op)
            THEN /\ persistenceState' = SyncFailed(persistenceState, FailureMessage(op))
                 /\ UNCHANGED resultsScreen
            ELSE /\ resultsScreen' = AnalysisFailed(resultsScreen)
                 /\ UNCHANGED persistenceState
    /\ UNCHANGED <<gamePhase, players, currentRound, isDualScoring, newPlayerScore,
                   highestRound, toggles, backs, firstSegment, user, database>>

StartGame == Start(MaxStartPlayers, BOOLEAN, {""})

SubmitRound == Submit(MaxRound, ScoreInputs)

AddPlayer == Add(IF isDualScoring THEN MaxDualPlayers ELSE MaxPlayers)

\* A game played without signing in: no operation of the hook reaches the backend.
Next ==
    \/ StartGame
    \/ SubmitRound
    \/ PreviousRound
    \/ TypeStartingScore
    \/ AddPlayer
    \/ TogglePlayerActive
    \/ FinishGame
    \/ PlayAgain
    \/ NewGame

Spec == Init /\ [][Next]_vars

\* A longer game of two players without dual scoring and without mid-game joins;
\* the second player may be given the name of the first.
StartLongGame == Start(MinPlayers, {FALSE}, LongNameInputs)

SubmitLongRound == Submit(LongRound, ScoreInputs)

NextLong ==
    \/ StartLongGame
    \/ SubmitLongRound
    \/ PreviousRound
    \/ TogglePlayerActive
    \/ FinishGame
    \/ PlayAgain
    \/ NewGame

SpecLong == Init /\ [][NextLong]_vars

\* A game of two players over two rounds with the scores of a played example,
\* negative scores included.
StartScenarioGame == Start(MinPlayers, {FALSE}, {""})

SubmitScenarioRound == Submit(ScenarioRound, ScenarioScoreInputs)

NextScenario ==
    \/ StartScenarioGame
    \/ SubmitScenarioRound
    \/ FinishGame
    \/ PlayAgain
    \/ NewGame

SpecScenario == Init /\ [][NextScenario]_vars

\* A game of up to as many players as the setup screen allows, with players
\* added mid-game and every score field left empty.
StartCrowdGame == Start(MaxPlayerCount, {FALSE}, {""})

SubmitCrowdRound == Submit(CrowdRound, {})

AddCrowdPlayer == Add(MaxCrowd)

NextCrowd ==
    \/ StartCrowdGame
    \/ SubmitCrowdRound
    \/ AddCrowdPlayer
    \/ FinishGame
    \/ PlayAgain
    \/ NewGame

SpecCrowd == Init /\ [][NextCrowd]_vars

\* A game of two players without dual scoring, played by a signed-in user: the
\* operations of the hook reach the backend and are answered later.
InitSignedIn == Mounted(TRUE)

StartSyncGame == Start(MinPlayers, {FALSE}, {""})

SubmitSyncRound == Submit(SyncRound, ScoreInputs)

NextSync ==
    \/ StartSyncGame
    \/ SubmitSyncRound
    \/ PreviousRound
    \/ FinishGame
    \/ GenerateAnalysis
    \/ PlayAgain
    \/ NewGame
    \/ OperationSucceeds
    \/ OperationFails

SpecSync == InitSignedIn /\ [][NextSync]_vars

\* The backend answers a request it does not accept (a participant is missing,
\* a column type or a unique key is not met): the catch block of the operation
\* runs.
OperationRejected ==
    /\ OperationFails
    /\ \E k \in 1..Len(inFlight) :
         /\ ~Accepts(database, inFlight[k])
         /\ inFlight' = RemoveAt(inFlight, k)
         /\ lastOp' = Failed(inFlight[k])

\* The one game of a signed-in user with a backend that is reachable and
\* answers every request: an operation fails only when the backend does not
\* accept it.
NextHealthy ==
    \/ StartSyncGame
    \/ SubmitSyncRound
    \/ PreviousRound
    \/ FinishGame
    \/ GenerateAnalysis
    \/ NewGame
    \/ OperationSucceeds
    \/ OperationRejected

\* Every promise of the backend settles; the user is free to stop at any time.
SpecHealthy ==
    /\ InitSignedIn
    /\ [][NextHealthy]_vars
    /\ WF_vars(OperationSucceeds)
    /\ WF_vars(OperationRejected)

\* The game of a signed-in user with a backend that answers every request,
\* with success or with a failure.
SpecSyncFair ==
    /\ InitSignedIn
    /\ [][NextSync]_vars
    /\ WF_vars(OperationSucceeds \/ OperationFails)

(***************************************************************************)
(* Properties of the ledger.                                               *)
(***************************************************************************)
Indexes == 1..Len(players)

AddOps == {"add", "addNonZero"}
ToggleOps == {"giveUp", "rejoin"}
SubmitOps == {"submit", "submitFill", "resubmit", "resubmitFill"}
ResubmitOps == {"resubmit", "resubmitFill"}

\* The player the last "add player" appended.
Joiner == players[Len(players)]

EntryChoices ==
    {<<>>} \cup {<<[score |-> Num(sc), prediction |-> pr]>> :
                    sc \in {0} \cup ScoreInputs,
                    pr \in {undefined} \cup {Num(v) : v \in PredictionInputs}}

RECURSIVE EntriesFrom(_, _, _)
EntriesFrom(ps, choice, from) ==
    IF from > Len(ps) THEN <<>>
    ELSE (IF choice[from] = <<>> THEN <<>>
          ELSE <<[playerId |-> ps[from].id,
                  score |-> choice[from][1].score,
                  prediction |-> choice[from][1].prediction]>>)
         \o EntriesFrom(ps, choice, from + 1)

AnyRoundScores(ps) == {EntriesFrom(ps, choice, 1) : choice \in [1..Len(ps) -> EntryChoices]}

\* C2: submitting a round leaves every inactive player unchanged, also when the
\* submitted entries contain an entry for that player.
C2_InactiveUntouched ==
    (gamePhase = "playing" /\ \E i \in Indexes : ~players[i].isActive) =>
        \A scores \in AnyRoundScores(players) :
            \A i \in Indexes :
                ~players[i].isActive =>
                    handleScoreSubmit(players, currentRound, scores)[i] = players[i]

\* C2 witness: a round was submitted while a player with recorded scores and
\* predictions was inactive.
C2_Witness ==
    /\ lastOp \in SubmitOps
    /\ \E i \in Indexes :
         /\ ~players[i].isActive
         /\ players[i].gaveUpAtRound < currentRound
         /\ players[i].scores # <<>>
         /\ players[i].predictions.defined
         /\ players[i].predictions.items # <<>>

\* C3: a give-up or rejoin alters no player's scores, predictions or totalScore.
C3_ToggleKeepsScores ==
    [][lastOp' \in ToggleOps =>
          /\ Len(players') = Len(players)
          /\ \A i \in Indexes :
               /\ players'[i].scores = players[i].scores
               /\ players'[i].predictions = players[i].predictions
               /\ players'[i].totalScore = players[i].totalScore]_vars

\* C3 witness: a player with recorded scores and predictions has just rejoined.
C3_Witness ==
    /\ lastOp = "rejoin"
    /\ \E i \in Indexes :
         /\ players[i].isActive
         /\ players[i].gaveUpAtRound # NoRound
         /\ players[i].joinedAtRound = currentRound
         /\ players[i].scores # <<>>
         /\ players[i].predictions.items # <<>>

\* C4: giving up at round r sets isActive to false and gaveUpAtRound to r;
\* rejoining at round r sets isActive to true and joinedAtRound to r and keeps
\* gaveUpAtRound; nothing else changes, for this player or any other.
C4_ToggleLifecycle ==
    [][/\ lastOp' = "giveUp" =>
             \E j \in Indexes :
                /\ players[j].isActive
                /\ players' = [players EXCEPT ![j].isActive = FALSE,
                                              ![j].gaveUpAtRound = currentRound]
       /\ lastOp' = "rejoin" =>
             \E j \in Indexes :
                /\ ~players[j].isActive
                /\ players' = [players EXCEPT ![j].isActive = TRUE,
                                              ![j].joinedAtRound = currentRound]]_vars

\* C4 witness: a player who gave up at round 1 has rejoined at a later round.
C4_Witness ==
    /\ lastOp = "rejoin"
    /\ \E i \in Indexes :
         /\ players[i].isActive
         /\ players[i].gaveUpAtRound = 1
         /\ players[i].joinedAtRound = currentRound
         /\ currentRound > 1

\* The mean of the players' totals.
MeanTotal(ps) == DivBy(TotalPoints(ps), Len(ps))

\* C5 (as claimed): the starting score computed for a player who joins mid-game
\* is the mean of the existing players' totals.
C5_StartingScoreIsMean ==
    (gamePhase = "playing" /\ currentRound > 1) =>
        calculateStartingScore(players, currentRound) = MeanTotal(players)

C7_NonZeroRejectedAtRoundOne ==
    (lastOp \in AddOps /\ currentRound = 1) =>
        /\ Joiner.scores = <<>>
        /\ Joiner.totalScore = Num(0)
        /\ lastOp # "addNonZero"

\* C7 (amended): a player added at round 1 starts with scores = [] and
\* totalScore = 0, whatever the starting score field holds: a non-zero value is
\* replaced by 0 and the player is added.
C7_RoundOneJoinerStartsAtZero ==
    (lastOp \in AddOps /\ currentRound = 1) =>
        /\ Joiner.scores = <<>>
        /\ Joiner.totalScore = Num(0)
        /\ Joiner.joinedAtRound = 1

\* C7 witness: a player was added at round 1 while the starting score field held
\* a non-zero value.
C7_Witness ==
    /\ lastOp = "addNonZero"
    /\ currentRound = 1
    /\ Joiner.id >= Epoch

\* C8 (as claimed): re-submitting a round never inserts score slots: it overwrites
\* an existing slot or, where the player has no slot for the round, fails
\* without creating entries; so no player's scores change length.
C8_ResubmitNeverCreatesSlots ==
    [][lastOp' \in ResubmitOps =>
          /\ Len(players') = Len(players)
          /\ \A i \in Indexes :
               Len(players'[i].scores) = Len(players[i].scores)]_vars

\* C8 (amended): re-submitting a round leaves inactive players alone, overwrites
\* the slot of an active player that has one (same length, other slots
\* unchanged) and, for an active player without a slot for the round, keeps the
\* existing slots, fills the missing earlier rounds with 0 and appends the
\* score: entries are created, and the step is never refused.
C8_ResubmitOverwritesOrFills ==
    [][lastOp' \in ResubmitOps =>
          /\ Len(players') = Len(players)
          /\ \A i \in Indexes :
               LET old == players[i].scores
                   new == players'[i].scores
                   roundIndex == currentRound - 1
               IN IF ~players[i].isActive THEN players'[i] = players[i]
                  ELSE IF Len(old) > roundIndex
                  THEN /\ Len(new) = Len(old)
                       /\ \A j \in 1..Len(old) : j # roundIndex + 1 => new[j] = old[j]
                  ELSE /\ Len(new) = roundIndex + 1
                       /\ \A j \in 1..Len(old) : new[j] = old[j]
                       /\ \A j \in (Len(old) + 1)..roundIndex : new[j] = Num(0)]_vars

\* C8 witness: a round below the highest round reached was submitted again and a
\* player without a slot for it got its missing rounds filled with 0.
C8_Witness ==
    /\ lastOp = "resubmitFill"
    /\ \E i \in Indexes :
         /\ players[i].isActive
         /\ Len(players[i].scores) = currentRound - 1
         /\ players[i].gaveUpAtRound # NoRound

\* C9: submitting the same entries for the same round twice in a row yields the
\* ledger of the first submission.
C9_ResubmitIdempotent ==
    gamePhase = "playing" =>
        \A typedScore \in [Indexes -> Field(ScoreInputs)] :
            \A typedPrediction \in [Indexes -> IF isDualScoring
                                                THEN Field(PredictionInputs)
                                                ELSE {undefined}] :
                \A scores \in {RoundScores(players, isDualScoring, typedScore, typedPrediction)} :
                    \A once \in {handleScoreSubmit(players, currentRound, scores)} :
                        handleScoreSubmit(once, currentRound, scores) = once

\* C9 witness: after going back, a round was submitted again over recorded scores
\* and predictions, and the game is back at its highest round.
C9_Witness ==
    /\ lastOp = "resubmit"
    /\ currentRound = highestRound
    /\ \E i \in Indexes :
         /\ players[i].isActive
         /\ Len(players[i].scores) = currentRound - 1
         /\ players[i].predictions.defined
         /\ Len(players[i].predictions.items) = currentRound - 1

(***************************************************************************)
(* Properties of the chart.                                                *)
(***************************************************************************)
\* Every player is selected (the filter of a freshly mounted game screen).
AllSelected == {players[i].id : i \in Indexes}

\* What the line of player i shows at a round when every player is selected;
\* nothing at a round the chart does not have.
Series(i, round) ==
    IF round \in ChartRounds(currentRound)
    THEN LineValue(chartData(players, currentRound, AllSelected, round), players[i].name)
    ELSE Absent

UniqueName(i) == \A j \in Indexes : j # i => players[j].name # players[i].name

\* Scenario C: player i gave up at round 2 and rejoined at round 4.
ScenarioC(i) ==
    /\ gamePhase = "playing"
    /\ players[i].isActive
    /\ players[i].gaveUpAtRound = 2
    /\ players[i].joinedAtRound = 4
    /\ UniqueName(i)

C11_InactiveHasNoDataAfterGiveUp ==
    gamePhase = "playing" =>
        \A i \in Indexes :
            (~players[i].isActive /\ UniqueName(i)) =>
                \A r \in ChartRounds(currentRound) :
                    r >= players[i].gaveUpAtRound => NoData(Series(i, r))

\* C12 (as claimed): at round 0 the series has 0 for every visible player whose
\* first segment began at round 1, whatever happened to the player later, and
\* NoData for every player whose first segment began at a later round.
C12_RoundZeroFollowsFirstSegment ==
    (gamePhase = "playing" /\ 0 \in ChartRounds(currentRound)) =>
        \A i \in Indexes :
            UniqueName(i) =>
                IF firstSegment[i] = 1 THEN Series(i, 0) = Value(Num(0))
                ELSE NoData(Series(i, 0))

\* The players who have never given up in this game.
NeverGaveUp(i) == players[i].gaveUpAtRound = NoRound /\ UniqueName(i)

\* C13 (as claimed): for a player who has never given up, the series value at the
\* last completed round (currentRound - 1) equals the player's totalScore, in
\* every reachable state that has at least one completed round.
C13_LastRoundIsTotal ==
    (gamePhase = "playing" /\ currentRound > 1) =>
        \A i \in Indexes :
            NeverGaveUp(i) => Series(i, currentRound - 1) = Value(players[i].totalScore)

\* C13 (amended): for a player who has never given up, the series value at the
\* last completed round equals totalScore when the player has exactly
\* currentRound - 1 recorded scores or joined at the current round.  After
\* going back, a player who joined at a later round has NoData there, and any
\* other player has the cumulative score of rounds 1 .. currentRound - 1 only.
C13_LastRoundIsTotalUnlessWentBack ==
    (gamePhase = "playing" /\ currentRound > 1) =>
        \A i \in Indexes :
            NeverGaveUp(i) =>
                LET p == players[i]
                    last == Series(i, currentRound - 1)
                IN IF Len(p.scores) = currentRound - 1 \/ p.joinedAtRound = currentRound
                   THEN last = Value(p.totalScore)
                   ELSE IF p.joinedAtRound > currentRound THEN NoData(last)
                   ELSE last = Value(calculateCumulativeScore(
                                         SubSeq(p.scores, 1, currentRound - 1)))

\* C13 witness: two rounds are completed and a player who never gave up and
\* scored in both has a non-zero total.
C13_Witness ==
    /\ gamePhase = "playing"
    /\ currentRound = 3
    /\ \E i \in Indexes :
         /\ NeverGaveUp(i)
         /\ players[i].joinedAtRound = 1
         /\ players[i].scores = <<Num(3), Num(3)>>
         /\ players[i].totalScore = Num(6)

\* C14: a player excluded by the visibility filter has NoData at every round of
\* the chart, round 0 included, whatever its scores and lifecycle state: the
\* chart assigns null for it, its line draws nothing, and the key of its name
\* holds null unless another player carries the same name.
C14_HiddenPlayerHasNoData ==
    gamePhase = "playing" =>
        \A selectedPlayerIds \in SUBSET AllSelected :
            \A i \in Indexes :
                players[i].id \notin selectedPlayerIds =>
                    \A r \in ChartRounds(currentRound) :
                        /\ PlayerPoint(players[i], r, currentRound, selectedPlayerIds) = Null
                        /\ NoData(Line(players, i, currentRound, selectedPlayerIds, r))
                        /\ UniqueName(i) =>
                             LineValue(chartData(players, currentRound, selectedPlayerIds, r),
                                       players[i].name) = Null

\* C14 witness: three rounds are completed and a player with scores in all of
\* them, who gave up and rejoined, can be excluded by the filter.
C14_Witness ==
    /\ gamePhase = "playing"
    /\ currentRound = 4
    /\ \E i \in Indexes :
         /\ Len(players[i].scores) = 3
         /\ players[i].totalScore # Num(0)
         /\ players[i].gaveUpAtRound # NoRound
         /\ players[i].isActive

\* Ledgers that differ from ps in the record of player j only: another name,
\* other scores, or the other lifecycle state.
ChangedAt(ps, j) ==
    { [ps EXCEPT ![j].name = "Somebody else"],
      [ps EXCEPT ![j].scores = <<>>, ![j].totalScore = Num(0)],
      [ps EXCEPT ![j].isActive = ~ps[j].isActive, ![j].gaveUpAtRound = 1] }

\* C15 (as claimed): the series values of one player depend only on that
\* player's own record and visibility: changing another player's scores, name
\* or lifecycle state never changes them, also when two players have the same
\* name.
C15_SeriesIndependentOfOthers ==
    gamePhase = "playing" =>
        \A i \in Indexes : \A j \in Indexes \ {i} :
            \A changed \in ChangedAt(players, j) :
                \A r \in ChartRounds(currentRound) :
                    Line(changed, i, currentRound, AllSelected, r)
                        = Line(players, i, currentRound, AllSelected, r)

(***************************************************************************)
(* Properties of the ranking.                                              *)
(***************************************************************************)
\* The position of the player with the given id in a list of players.
PositionOf(ps, id) == CHOOSE k \in 1..Len(ps) : ps[k].id = id

\* C16: rankPlayers returns the players ordered by totalScore descending when
\* highScoreWins is true and ascending otherwise, and players with equal
\* totalScore keep their original relative order.
C16_RankIsStableSort ==
    \A highScoreWins \in BOOLEAN :
        LET ranked == rankPlayers(players, highScoreWins)
        IN /\ Len(ranked) = Len(players)
           /\ \A i \in Indexes : \E k \in 1..Len(ranked) : ranked[k] = players[i]
           /\ \A a \in 1..Len(ranked) : \A b \in (a + 1)..Len(ranked) :
                /\ highScoreWins => ~Less(ranked[a].totalScore, ranked[b].totalScore)
                /\ ~highScoreWins => ~Less(ranked[b].totalScore, ranked[a].totalScore)
                /\ ranked[a].totalScore = ranked[b].totalScore =>
                     PositionOf(players, ranked[a].id) < PositionOf(players, ranked[b].id)

\* C16 witness: the results screen ranks three players of which the first two
\* tie on a total below that of the third.
C16_Witness ==
    /\ gamePhase = "results"
    /\ Len(players) = 3
    /\ players[1].totalScore = players[2].totalScore
    /\ Less(players[1].totalScore, players[3].totalScore)

\* C17: ranking the ranked players again with the same highScoreWins gives the
\* same order, and flipping highScoreWins reverses the relative order of every
\* pair of players whose totals differ.
C17_RankRepeatsAndFlips ==
    /\ \A highScoreWins \in BOOLEAN :
         rankPlayers(rankPlayers(players, highScoreWins), highScoreWins)
             = rankPlayers(players, highScoreWins)
    /\ LET high == rankPlayers(players, TRUE)
           low == rankPlayers(players, FALSE)
       IN \A i \in Indexes : \A j \in Indexes :
              players[i].totalScore # players[j].totalScore =>
                  (PositionOf(high, players[i].id) < PositionOf(high, players[j].id)
                      <=> PositionOf(low, players[j].id) < PositionOf(low, players[i].id))

\* C17 witness: three players with three different totals, not in ranked order.
C17_Witness ==
    /\ gamePhase = "playing"
    /\ Len(players) = 3
    /\ Less(players[2].totalScore, players[3].totalScore)
    /\ Less(players[3].totalScore, players[1].totalScore)

\* A NoPlayers error, as an outcome of a call.
NoPlayersError == [kind |-> "error", error |-> "NoPlayers"]

\* C18 (as claimed): winner returns the first element of rank for a non-empty
\* player list and signals a NoPlayers error when the player list is empty.
C18_WinnerOrNoPlayersError ==
    \A highScoreWins \in BOOLEAN :
        determineWinner(players, highScoreWins)
            = IF players = <<>> THEN NoPlayersError
              ELSE rankPlayers(players, highScoreWins)[1]

\* C18 (amended): determineWinner returns the first element of rankPlayers for a
\* non-empty player list, a player no other player beats, and returns null,
\* without an error, when the player list is empty.
C18_WinnerOrNull ==
    \A highScoreWins \in BOOLEAN :
        LET winner == determineWinner(players, highScoreWins)
        IN IF players = <<>> THEN winner = null
           ELSE /\ winner = rankPlayers(players, highScoreWins)[1]
                /\ \A i \in Indexes : ~SortsBefore(players[i], winner, highScoreWins)

\* C18 witness: the results screen of two players of which the second has the
\* higher total.
C18_Witness ==
    /\ gamePhase = "results"
    /\ Len(players) = 2
    /\ Less(players[1].totalScore, players[2].totalScore)
    /\ determineWinner(players, TRUE) = players[2]

C20_ScenarioA ==
    (/\ Len(players) = 2
     /\ players[1].scores = <<Num(10), Num(15)>>
     /\ players[2].scores = <<Num(20), Num(-5)>>) =>
        /\ players[1].totalScore = Num(25)
        /\ players[2].totalScore = Num(15)
        /\ determineWinner(players, TRUE) = players[1]

\* C20 witness: the two rounds of the scenario were submitted in order and the
\* game was finished.
C20_Witness ==
    /\ gamePhase = "results"
    /\ currentRound = 3
    /\ Len(players) = 2
    /\ players[1].scores = <<Num(10), Num(15)>>
    /\ players[2].scores = <<Num(20), Num(-5)>>

\* C21: play again resets every player's scores to empty, totalScore to 0,
\* isActive to true, gaveUpAtRound to unset and joinedAtRound to 1, and
\* currentRound to 1, and keeps every player, mid-game joiners included, with
\* the same id and name at the same position.
C21_PlayAgainResetsLedger ==
    [][lastOp' = "playAgain" =>
          /\ currentRound' = 1
          /\ Len(players') = Len(players)
          /\ \A i \in Indexes :
               /\ players'[i].id = players[i].id
               /\ players'[i].name = players[i].name
               /\ players'[i].scores = <<>>
               /\ players'[i].totalScore = Num(0)
               /\ players'[i].isActive
               /\ players'[i].gaveUpAtRound = NoRound
               /\ players'[i].joinedAtRound = 1]_vars

\* C21 witness: a game with a mid-game joiner was started again.
C21_Witness ==
    /\ lastOp = "playAgain"
    /\ gamePhase = "playing"
    /\ Len(players) = 3
    /\ players[3].id >= Epoch
    /\ players[3].joinedAtRound = 1

\* C25: currentRound is one clock for the whole game: Save & Next advances it
\* by exactly 1 whichever players are inactive or have no entry, Previous
\* decreases it by exactly 1, and it is never below 1.
C25_RoundIsGlobalClock ==
    [][/\ lastOp' \in SubmitOps => currentRound' = currentRound + 1
       /\ lastOp' = "previous" => currentRound' = currentRound - 1
       /\ currentRound' >= 1]_vars

\* C25 witness: a round was saved while a player was inactive, and Previous
\* was pressed afterwards.
C25_Witness ==
    /\ lastOp = "previous"
    /\ currentRound = 2
    /\ highestRound = 3
    /\ \E i \in Indexes : ~players[i].isActive /\ Len(players[i].scores) < 2

\* C26: while a game is being played the number of players is between 2 and
\* 10, also after players were added mid-game.
C26_PlayerCountWithinLimits ==
    gamePhase = "playing" =>
        /\ Len(players) >= MinPlayers
        /\ Len(players) <= MaxPlayerCount

Appended(old, new) ==
    /\ Len(new) = Len(old) + 1
    /\ \A j \in 1..Len(old) : new[j] = old[j]

\* new is old with at most the slot of index k (counted from 0) replaced.
Overwritten(old, new, k) ==
    /\ k < Len(old)
    /\ Len(new) = Len(old)
    /\ \A j \in 1..Len(old) : j # k + 1 => new[j] = old[j]

\* new is old, then 0 for the missing slots below index k, then one more slot.
FilledAndAppended(old, new, k) ==
    /\ Len(old) < k
    /\ Len(new) = k + 1
    /\ \A j \in 1..Len(old) : new[j] = old[j]
    /\ \A j \in (Len(old) + 1)..k : new[j] = Num(0)

\* The slot rule by the player's segment: append exactly when the array holds
\* roundNumber - joinedAtRound slots, otherwise overwrite the slot of that index.
SegmentSlotRule(old, new, roundNumber, joinedAtRound) ==
    IF Len(old) = roundNumber - joinedAtRound THEN Appended(old, new)
    ELSE Overwritten(old, new, roundNumber - joinedAtRound)

\* The slot rule by the round: append exactly when the array holds
\* roundNumber - 1 slots, overwrite the slot of index roundNumber - 1 when it
\* exists, otherwise fill the missing rounds with 0 and append.
RoundSlotRule(old, new, roundNumber) ==
    IF Len(old) = roundNumber - 1 THEN Appended(old, new)
    ELSE IF Len(old) > roundNumber - 1 THEN Overwritten(old, new, roundNumber - 1)
    ELSE FilledAndAppended(old, new, roundNumber - 1)

\* C28 (as stated): when a round is submitted for an active player, the score is
\* appended exactly when scores.length = roundNumber - joinedAtRound and
\* otherwise overwrites the slot of that index; the prediction follows the same
\* rule on predictions.
C28_AppendBySegment ==
    [][lastOp' \in SubmitOps =>
          \A i \in Indexes :
              players[i].isActive =>
                  /\ SegmentSlotRule(players[i].scores, players'[i].scores,
                                     currentRound, players[i].joinedAtRound)
                  /\ players[i].predictions.defined =>
                         SegmentSlotRule(players[i].predictions.items,
                                         players'[i].predictions.items,
                                         currentRound, players[i].joinedAtRound)]_vars

\* C28 (amended): when a round is submitted for an active player, the score is
\* appended exactly when scores.length = roundNumber - 1, overwrites the slot of
\* index roundNumber - 1 when scores is longer, and is appended after 0 for each
\* missing round when scores is shorter; the prediction follows the same rule on
\* predictions.
C28_AppendByRound ==
    [][lastOp' \in SubmitOps =>
          \A i \in Indexes :
              players[i].isActive =>
                  /\ RoundSlotRule(players[i].scores, players'[i].scores, currentRound)
                  /\ IF players[i].predictions.defined
                     THEN RoundSlotRule(players[i].predictions.items,
                                        players'[i].predictions.items, currentRound)
                     ELSE players'[i].predictions = players[i].predictions]_vars

\* C28 witness: a round was submitted for a player who joined at round 2 with one
\* backfilled slot, and the score was appended as the second slot.
C28_Witness ==
    /\ lastOp = "submit"
    /\ currentRound = 3
    /\ \E i \in Indexes :
         /\ players[i].id >= Epoch
         /\ players[i].isActive
         /\ players[i].joinedAtRound = 2
         /\ Len(players[i].scores) = 2

\* Player i gave up and is back in the game.
Rejoined(i) ==
    /\ gamePhase = "playing"
    /\ players[i].isActive
    /\ players[i].gaveUpAtRound # NoRound
    /\ UniqueName(i)

C30_NoActivePlayerGaveUpAfterJoin ==
    \A i \in Indexes :
        (players[i].isActive /\ players[i].gaveUpAtRound # NoRound) =>
            players[i].gaveUpAtRound < players[i].joinedAtRound

\* C30 (amended): an active player who once gave up has gaveUpAtRound and
\* joinedAtRound within the rounds the game has reached, and, as long as
\* Previous was not used in the game, gaveUpAtRound <= joinedAtRound (equal when
\* the player rejoined in the round of the give-up).
C30_GaveUpNotAfterJoinUnlessWentBack ==
    \A i \in Indexes :
        (players[i].isActive /\ players[i].gaveUpAtRound # NoRound) =>
            /\ players[i].gaveUpAtRound \in 1..highestRound
            /\ players[i].joinedAtRound \in 1..highestRound
            /\ backs = 0 => players[i].gaveUpAtRound <= players[i].joinedAtRound

\* C30 witness: without any Previous, a player has rejoined in the round of the
\* give-up.
C30_Witness ==
    /\ lastOp = "rejoin"
    /\ backs = 0
    /\ \E i \in Indexes :
         /\ players[i].isActive
         /\ players[i].gaveUpAtRound = 2
         /\ players[i].joinedAtRound = 2

(***************************************************************************)
(* Properties of persistence and analysis.                                 *)
(***************************************************************************)
\* The operation the last gesture put in flight.
Started == inFlight'[Len(inFlight')]

\* C22: saveRound for a completed round is invoked after the ledger mutation of
\* that round: the players snapshot handed to saveRound for round r holds, for
\* every active player, the round-r score the same Save & Next submitted.
C22_SnapshotHoldsSubmittedRound ==
    [][(lastOp' \in SubmitOps /\ Len(inFlight') = Len(inFlight) + 1) =>
          /\ Started.op = "saveRound"
          /\ Started.roundNumber = currentRound
          /\ \A i \in Indexes :
               players[i].isActive =>
                   ItemAt(Started.players[i].scores, currentRound - 1)
                       = players'[i].scores[currentRound]]_vars

\* C23: for each player and each saved round r of the game being played, the
\* persisted round record carries the player's score for round r and the
\* cumulative score at that round, the sum of the player's scores for rounds
\* 1..r (compared with the ledger as long as no round of the game was revised).
C23_RecordCarriesRoundAndCumulative ==
    (gamePhase = "playing" /\ backs = 0) =>
        \A row \in database.round_scores :
            row.game_id = persistenceState.gameId =>
                LET player == players[row.player_order + 1]
                IN /\ row.score = ItemAt(player.scores, row.round_number - 1)
                   /\ row.cumulative_score =
                          calculateCumulativeScore(SubSeq(player.scores, 1, row.round_number))

PersistenceFailedOps ==
    {"initializeGame.failed", "saveRound.failed", "handlePlayerJoin.failed",
     "handlePlayerStatusChange.failed", "finishGame.failed"}

AnsweredOps ==
    PersistenceFailedOps \cup
    {"generateAnalysis.failed", "initializeGame.done", "saveRound.done",
     "handlePlayerJoin.done", "handlePlayerStatusChange.done", "finishGame.done",
     "generateAnalysis.done"}

\* C24: a failure of a persistence or analysis call does not reach the game:
\* players, currentRound and the game phase are left as they are, as they are
\* when the call succeeds; a persistence failure changes the persistence state
\* only in syncError, which is set, and isSyncing, which is false again; a
\* failed analysis is replaced by the fallback message and is no longer loading.
C24_FailureStaysOutOfGame ==
    [][/\ lastOp' \in AnsweredOps =>
             /\ players' = players
             /\ currentRound' = currentRound
             /\ gamePhase' = gamePhase
       /\ lastOp' \in PersistenceFailedOps =>
             /\ persistenceState'.syncError # null
             /\ ~persistenceState'.isSyncing
             /\ persistenceState'.gameId = persistenceState.gameId
             /\ persistenceState'.lastSyncedRound = persistenceState.lastSyncedRound
             /\ resultsScreen' = resultsScreen
       /\ lastOp' = "generateAnalysis.failed" =>
             /\ resultsScreen'.analysis = FallbackText
             /\ ~resultsScreen'.isLoading
             /\ persistenceState' = persistenceState]_vars

\* C24 witness: after a round was played, a persistence call has failed and the
\* analysis has failed; the error is recorded and the fallback message shown.
C24_Witness ==
    /\ lastOp = "generateAnalysis.failed"
    /\ gamePhase = "results"
    /\ currentRound = 2
    /\ resultsScreen.analysis = FallbackText
    /\ persistenceState.syncError # null
    /\ ~persistenceState.isSyncing
    /\ \E i \in Indexes : players[i].totalScore = Num(3)

(***************************************************************************)
(* Properties of the library's graph data.                                 *)
(***************************************************************************)
\* The eligibility of a player for a round as it is described: the player has
\* joined by the round, and is active or gave up after the round.
EligibleAsDescribed(player, round) ==
    /\ player.joinedAtRound <= round
    /\ \/ player.isActive
       \/ (player.gaveUpAtRound # NoRound /\ round < player.gaveUpAtRound)

\* C31: the eligibility predicate is true for (player, round) exactly when
\* joinedAtRound <= round and either the player is active or round <
\* gaveUpAtRound; the graph data of the library carries a value for exactly the
\* eligible rounds.
C31_EligibleIffJoinedAndActiveOrBeforeGiveUp ==
    \A i \in Indexes :
        \A round \in 1..MaxRound :
            /\ isPlayerActiveInRound(players[i], round)
                   <=> EligibleAsDescribed(players[i], round)
            /\ GraphDataPoint(players[i], round).kind = "value"
                   <=> EligibleAsDescribed(players[i], round)

(***************************************************************************)
(* Properties of saving: progress and overlapping operations.              *)
(***************************************************************************)
\* Round r has just been completed with Save & Next.
RoundCompleted(r) == lastOp \in SubmitOps /\ currentRound = r + 1

\* The backend holds a record of round r.
RoundSaved(r) == \E row \in database.round_scores : row.round_number = r

\* Every round completed with Save & Next is eventually saved.
NoSaveSkipped == \A r \in 1..(SyncRound - 1) : RoundCompleted(r) ~> RoundSaved(r)

\* No save of a round fails.
NoSaveRejected == [](lastOp # "saveRound.failed")

\* C32: for a signed-in user whose backend calls all succeed, every round
\* completed with Save & Next is eventually saved: the save is neither skipped
\* nor rejected.
C32_CompletedRoundEventuallySaved == NoSaveSkipped /\ NoSaveRejected

\* A save of a round has failed and the status of the game screen shows the
\* failure.
SaveFailedShown ==
    /\ lastOp = "saveRound.failed"
    /\ gamePhase = "playing"
    /\ persistenceState.syncError # null

\* A save of a round awaits the backend.
SaveInFlight == \E k \in 1..Len(inFlight) : inFlight[k].op = "saveRound"

\* C33: after a save fails and the status shows 'Save failed - will retry', a
\* save is eventually attempted again.
C33_FailedSaveIsRetried == SaveFailedShown ~> SaveInFlight

\* A persistence operation awaits the backend.
PersistenceInFlight == \E k \in 1..Len(inFlight) : IsPersistenceOp(inFlight[k])

\* C34: while a game is played, isSyncing is true whenever at least one
\* persistence operation is still in flight and false only when none is, also
\* when several operations overlap.
C34_SyncingIffOperationInFlight ==
    gamePhase = "playing" => (persistenceState.isSyncing <=> PersistenceInFlight)

\* The step answers the operation at position k of inFlight.
Answers(k) ==
    /\ inFlight' = RemoveAt(inFlight, k)
    /\ lastOp' \in {Succeeded(inFlight[k]), Failed(inFlight[k])}

\* The operation at position k of inFlight was started for a game before the
\* last reset: no operation starts on the setup screen, and an operation that
\* holds a game id holds the id of the game it was started for.
StartedForPreviousGame(k) ==
    /\ IsPersistenceOp(inFlight[k])
    /\ IF gamePhase = "setup" THEN TRUE
       ELSE IF inFlight[k].op = "initializeGame" THEN FALSE
       ELSE inFlight[k].gameId # persistenceState.gameId

\* C35: after persistence is reset by Play Again or New Game, the late
\* completion of an operation started for the previous game never changes the
\* persistence state of the new game: gameId, lastSyncedRound and syncError
\* stay as they are.
C35_LateCompletionLeavesNewGame ==
    [][\A k \in 1..Len(inFlight) :
           (Answers(k) /\ StartedForPreviousGame(k)) =>
               /\ persistenceState'.gameId = persistenceState.gameId
               /\ persistenceState'.lastSyncedRound = persistenceState.lastSyncedRound
               /\ persistenceState'.syncError = persistenceState.syncError]_vars

(***************************************************************************)
(* Properties of the saved game.                                           *)
(***************************************************************************)
\* The finished games whose winning participant is linked to the account of
\* the signed-in user.
GamesWonByUser ==
    {n \in 1..Len(database.games) :
        /\ database.games[n].is_finished
        /\ \E row \in Linked(database, GameId(n)) : row.is_winner}

\* C36: when a game is finalized, the user statistics of the account linked to
\* the winning participant show the win: total_games_won counts every finished
\* game whose winner is linked to the account.
C36_StatisticsShowTheWin ==
    database.user_statistics.total_games_won = Cardinality(GamesWonByUser)

\* The game on the results screen is saved: it is finished in the backend with
\* the rounds it played, and the backend holds a record of every player for
\* every completed round.
GameIsSaved ==
    /\ gamePhase = "results"
    /\ persistenceState.gameId # null
    /\ database.games[persistenceState.gameId.n].is_finished
    /\ database.games[persistenceState.gameId.n].total_rounds = currentRound - 1
    /\ \A i \in Indexes :
         /\ ParticipantExists(database, persistenceState.gameId, i - 1)
         /\ \A r \in 1..(currentRound - 1) :
              \E rs \in database.round_scores :
                  /\ rs.game_id = persistenceState.gameId
                  /\ rs.player_order = i - 1
                  /\ rs.round_number = r

\* C37: for a saved game, rebuilding the players from the persisted round
\* records and projecting them yields, for every player and completed round,
\* the same cumulative value that the live game's series showed.
C37_SavedGameShowsLiveSeries ==
    GameIsSaved =>
        \A i \in Indexes :
            \A r \in 1..(currentRound - 1) :
                GameDetailLine(database, persistenceState.gameId, i, r) = Series(i, r)

(***************************************************************************)
(* Properties of editing an earlier round.                                 *)
(***************************************************************************)
\* The score and prediction fields as the game screen shows them after a Save &
\* Next and a Previous round, before anything is typed: every field is empty.
EmptyFields == [i \in Indexes |-> undefined]

\* The players after a Save & Next with empty fields.
SavedWithEmptyFields ==
    handleScoreSubmit(players, currentRound,
                      RoundScores(players, isDualScoring, EmptyFields, EmptyFields))

\* C38: after navigating back to an earlier round, pressing Save & Next without
\* entering new values leaves the scores already recorded for that round, and
\* every player's totalScore, unchanged.
C38_ResubmitWithoutValuesKeepsRound ==
    (gamePhase = "playing" /\ lastOp = "previous") =>
        \A i \in Indexes :
            /\ ItemAt(SavedWithEmptyFields[i].scores, currentRound - 1)
                   = ItemAt(players[i].scores, currentRound - 1)
            /\ SavedWithEmptyFields[i].totalScore = players[i].totalScore

====
